---------------------------- MODULE Spec2Model ----------------------------
(***************************************************************************)
(* The booking modal of Ride-Rental (BookingModal in                       *)
(* src/src/components/DateTimeBookingTest.tsx): the form state controller, *)
(* the validator, the pricing calculator and the submission orchestrator   *)
(* with its three persistence tiers.                                       *)
(*                                                                         *)
(* Texts are sequences of one-character strings, so that trimming,         *)
(* whitespace stripping and the regular expressions are computed.          *)
(* A date string 'YYYY-MM-DD' is its day number (0 is the empty string), a *)
(* time string 'HH:MM' is its minute of the day (-1 is the empty string),  *)
(* an instant is a number of minutes of universal time.                    *)
(***************************************************************************)
EXTENDS Integers, Sequences, FiniteSets, TLC

VARIABLES
    isOpen,          \* prop isOpen, owned by the parent
    bookingData,     \* prop bookingData, owned by the parent
    currentStep,     \* useState: 'form' | 'thank-you'
    formData,        \* useState: FormData
    errors,          \* useState: FormErrors (field -> message)
    isSubmitting,    \* useState
    escSubmitting,   \* isSubmitting as captured by the registered Escape handler
    inflight,        \* the suspended calls of submitBooking, in the order they started
    lastDone,        \* the call of submitBooking that ended last
    submitted,       \* the number of calls of submitBooking so far
    bookings,        \* remote table 'bookings'
    weekly_bookings, \* remote table 'weekly_bookings'
    relayPosts,      \* POST requests issued to the form-relay endpoint
    pendingBookings, \* localStorage slot 'pendingBookings'
    credentials,     \* import.meta.env holds VITE_SUPABASE_URL and VITE_SUPABASE_ANON_KEY
    supabase,        \* what importing lib/supabase.ts gave: the client, or it threw
    clock,           \* Date.now()
    zone,            \* the browser's time zone
    tabs,            \* other tabs of the site: where each is in storeBookingLocally
    contacts,        \* remote table 'contacts'
    contactCall      \* the call of createContactMessage: where it is and what it tried

vars == <<isOpen, bookingData, currentStep, formData, errors, isSubmitting,
          escSubmitting, inflight, lastDone, submitted, bookings, weekly_bookings,
          relayPosts, pendingBookings, clock, credentials, supabase,
                   zone, tabs, contacts, contactCall>>

-----------------------------------------------------------------------------
(* Bounds of the model *)

\* the times each other tab runs storeBookingLocally
MaxTabSaves == 2

\* the calls of createContactMessage
MaxMessages == 2

\* the largest number typed into the duration input
MaxDurationTyped == 31

\* submitBooking calls explored in one behaviour
MaxSubmissions == 2

\* the day number of the current day
Today == 10

-----------------------------------------------------------------------------
(* Texts *)

Letters ==
    {"a","b","c","d","e","f","g","h","i","j","k","l","m","n","o","p","q","r",
     "s","t","u","v","w","x","y","z","A","B","C","D","E","F","G","H","I","J",
     "K","L","M","N","O","P","Q","R","S","T","U","V","W","X","Y","Z"}

Digits == {"0","1","2","3","4","5","6","7","8","9"}

\* what \s matches among the characters used
Whitespace == {" ", "\t", "\n"}

DigitValue(c) ==
    CASE c = "0" -> 0 [] c = "1" -> 1 [] c = "2" -> 2 [] c = "3" -> 3
      [] c = "4" -> 4 [] c = "5" -> 5 [] c = "6" -> 6 [] c = "7" -> 7
      [] c = "8" -> 8 [] c = "9" -> 9

RECURSIVE TrimStart(_)
TrimStart(s) ==
    IF s # <<>> /\ Head(s) \in Whitespace THEN TrimStart(Tail(s)) ELSE s

RECURSIVE TrimEnd(_)
TrimEnd(s) ==
    IF s # <<>> /\ s[Len(s)] \in Whitespace
    THEN TrimEnd(SubSeq(s, 1, Len(s) - 1))
    ELSE s

\* String.prototype.trim
Trim(s) == TrimEnd(TrimStart(s))

\* replace(/\s+/g, '')
StripWhitespace(s) == SelectSeq(s, LAMBDA c : c \notin Whitespace)

\* replace(/[^0-9]/g, '')
KeepDigits(s) == SelectSeq(s, LAMBDA c : c \in Digits)

RECURSIVE DigitsValue(_)
DigitsValue(s) ==
    IF s = <<>> THEN 0
    ELSE 10 * DigitsValue(SubSeq(s, 1, Len(s) - 1)) + DigitValue(s[Len(s)])

\* the text of a whole number n >= 0, as the duration input shows it
DecimalDigits == <<"0","1","2","3","4","5","6","7","8","9">>

RECURSIVE DecimalText(_)
DecimalText(n) ==
    IF n < 10 THEN <<DecimalDigits[n + 1]>>
    ELSE Append(DecimalText(n \div 10), DecimalDigits[(n % 10) + 1])

\* a test for sub at the start of s only
Includes_StartsWith(s, sub) ==
    Len(sub) <= Len(s) /\ SubSeq(s, 1, Len(sub)) = sub

\* String.prototype.includes
Includes(s, sub) ==
    \E i \in 1..(Len(s) - Len(sub) + 1) : SubSeq(s, i, i + Len(sub) - 1) = sub

\* /^[a-zA-Z\s]+$/
IsLettersAndSpaces(s) ==
    /\ s # <<>>
    /\ \A i \in 1..Len(s) : s[i] \in Letters \cup Whitespace

\* ten digits with any first digit
IsTenDigitMobile_AnyFirstDigit(s) ==
    /\ Len(s) = 10
    /\ \A i \in 1..10 : s[i] \in Digits

\* [6-9]\d{9}
IsTenDigitMobile(s) ==
    /\ Len(s) = 10
    /\ s[1] \in {"6", "7", "8", "9"}
    /\ \A i \in 2..10 : s[i] \in Digits

\* /^(\+91)?[6-9]\d{9}$/
IsIndianMobile(s) ==
    \/ IsTenDigitMobile(s)
    \/ /\ Len(s) = 13
       /\ SubSeq(s, 1, 3) = <<"+", "9", "1">>
       /\ IsTenDigitMobile(SubSeq(s, 4, 13))

-----------------------------------------------------------------------------
(* Dates and times: Date, setDate, setHours, toISOString *)

MinutesPerDay == 1440

NoDate == 0
NoTime == 0 - 1

\* A time zone: its standard offset in minutes, and the day (if any, else 0)
\* on which, at 01:00 universal time, the clocks go forward by one hour.
Kolkata == [base |-> 330, dstDay |-> 0]

\* A zone one hour ahead of universal time whose clocks go forward two days
\* from now
Berlin == [base |-> 60, dstDay |-> Today + 2]

\* the offset of local time from universal time at instant u
Offset(z, u) ==
    IF z.dstDay > 0 /\ u >= z.dstDay * MinutesPerDay + 60
    THEN z.base + 60
    ELSE z.base

\* the instant of a local time (a skipped local time reads with the offset
\* before the change)
LocalToUtc(z, loc) ==
    LET u1 == loc - z.base
        u2 == loc - z.base - 60
    IN  IF Offset(z, u1) = z.base THEN u1
        ELSE IF Offset(z, u2) = z.base + 60 THEN u2
        ELSE u1

\* new Date('YYYY-MM-DD'): midnight of universal time
ParseDate(d) == d * MinutesPerDay

\* toISOString().split('T')[0]
FormatDate(u) == u \div MinutesPerDay

\* d = new Date(date); d.setDate(d.getDate() + n); format(d)
AddDays(z, date, n) ==
    LET t == ParseDate(date)
        loc == t + Offset(z, t)
    IN  FormatDate(LocalToUtc(z, loc + n * MinutesPerDay))

\* new Date(`${date}T${time}`): a local time
ParseDateTime(z, date, time) == LocalToUtc(z, date * MinutesPerDay + time)

\* Math.ceil((b.getTime() - a.getTime()) / (1000 * 60 * 60 * 24)) of two dates
DaysDifference(a, b) ==
    LET diff == ParseDate(b) - ParseDate(a)
    IN  IF diff >= 0
        THEN (diff + MinutesPerDay - 1) \div MinutesPerDay
        ELSE 0 - ((0 - diff) \div MinutesPerDay)

\* the current instant: noon (universal time) of the current day
Now == Today * MinutesPerDay + 720

\* today = new Date(); today.setHours(0, 0, 0, 0)
TodayMidnight(z) ==
    LET loc == Now + Offset(z, Now)
    IN  LocalToUtc(z, (loc \div MinutesPerDay) * MinutesPerDay)

Abs(x) == IF x < 0 THEN 0 - x ELSE x

-----------------------------------------------------------------------------
(* The form *)

FormFields ==
    {"name", "contact", "address", "days", "bookingType", "weeks",
     "pickupDate", "returnDate", "pickupTime", "returnTime"}

DefaultFormData ==
    [name |-> <<>>, contact |-> <<>>, address |-> <<>>, days |-> 1,
     bookingType |-> "daily", weeks |-> 1, pickupDate |-> NoDate,
     returnDate |-> NoDate, pickupTime |-> 540, returnTime |-> 1080]

NoErrors == [f \in {} |-> <<>>]

\* Amounts of money are whole numbers of paise, the hundredth of a rupee: a
\* price is a number, and the tables keep it as NUMERIC(10, 2)
Rupees(n) == n * 100

\* bookingData = null
NoVehicle == [category |-> "", model |-> <<>>, pricePerDay |-> 0 - 1]

PulsarName ==
    <<"B","a","j","a","j"," ","P","u","l","s","a","r"," ","1","5","0">>

ActivaName == <<"H","o","n","d","a"," ","A","c","t","i","v","a">>

Pulsar150 == [category |-> "Normal Bikes", model |-> PulsarName,
              pricePerDay |-> Rupees(550)]

Activa == [category |-> "Scooties", model |-> ActivaName,
           pricePerDay |-> Rupees(400)]


-----------------------------------------------------------------------------
(* validateForm: the mapping from field to message that setErrors receives *)

NameErrors(fd) ==
    LET n == Trim(fd.name)
    IN  IF n = <<>> THEN "name" :> <<"Full name is required">>
        ELSE IF Len(n) < 2 THEN "name" :> <<"Name must be at least 2 characters">>
        ELSE IF Len(n) > 60 THEN "name" :> <<"Name must be less than 60 characters">>
        ELSE IF ~IsLettersAndSpaces(n)
             THEN "name" :> <<"Name can only contain letters and spaces">>
        ELSE NoErrors

ContactErrors(fd) ==
    LET contactClean == StripWhitespace(fd.contact)
    IN  IF contactClean = <<>> THEN "contact" :> <<"Contact number is required">>
        ELSE IF ~IsIndianMobile(contactClean)
             THEN "contact" :> <<"Enter a valid 10-digit Indian mobile number">>
        ELSE NoErrors

AddressErrors(fd) ==
    LET a == Trim(fd.address)
    IN  IF a = <<>> THEN "address" :> <<"Pickup address is required">>
        ELSE IF Len(a) < 10 THEN "address" :> <<"Address must be at least 10 characters">>
        ELSE NoErrors

DaysErrors(fd) ==
    IF fd.days = 0 \/ fd.days < 1 THEN "days" :> <<"Number of days must be at least 1">>
    ELSE IF fd.days > 30 THEN "days" :> <<"Maximum rental period is 30 days">>
    ELSE NoErrors

WeeksErrors(fd) ==
    IF fd.weeks = 0 \/ fd.weeks < 1 THEN "weeks" :> <<"Number of weeks must be at least 1">>
    ELSE IF fd.weeks > 12 THEN "weeks" :> <<"Maximum weekly rental period is 12 weeks">>
    ELSE NoErrors

PickupDateErrors(fd, z, required) ==
    IF fd.pickupDate = NoDate THEN "pickupDate" :> <<required>>
    ELSE IF ParseDate(fd.pickupDate) < TodayMidnight(z)
         THEN "pickupDate" :> <<"Pickup date cannot be in the past">>
    ELSE NoErrors

\* the weekly return date checked against the pickup date only
WeeklyReturnDateErrors_NoTolerance(fd) ==
    IF fd.returnDate = NoDate
    THEN "returnDate" :> <<"Return date is required for weekly bookings">>
    ELSE IF fd.pickupDate # NoDate
              /\ ParseDate(fd.returnDate) <= ParseDate(fd.pickupDate)
    THEN "returnDate" :> <<"Return date must be after pickup date">>
    ELSE NoErrors

\* the second message, when its condition holds, replaces the first
WeeklyReturnDateErrors(fd) ==
    IF fd.returnDate = NoDate
    THEN "returnDate" :> <<"Return date is required for weekly bookings">>
    ELSE IF fd.pickupDate # NoDate
    THEN LET expectedDays == fd.weeks * 7
             first == IF ParseDate(fd.returnDate) <= ParseDate(fd.pickupDate)
                      THEN "returnDate" :> <<"Return date must be after pickup date">>
                      ELSE NoErrors
             second == IF Abs(DaysDifference(fd.pickupDate, fd.returnDate) - expectedDays) > 2
                       THEN "returnDate" :> <<"Return date should be approximately ", expectedDays,
                                             " days after pickup date for ", fd.weeks, " week(s)">>
                       ELSE NoErrors
         IN  second @@ first
    ELSE NoErrors

\* a return date that differs from pickup date + days is computed and dropped
DailyReturnDateErrors(fd) ==
    IF fd.returnDate = NoDate /\ fd.pickupDate # NoDate /\ fd.days # 0
    THEN "returnDate" :> <<"Return date calculation error - please check pickup date and days">>
    ELSE IF fd.pickupDate # NoDate /\ fd.returnDate # NoDate
              /\ ParseDate(fd.returnDate) < ParseDate(fd.pickupDate)
         THEN "returnDate" :> <<"Return date cannot be before pickup date">>
    ELSE NoErrors

DailyTimeErrors(fd, z) ==
    LET pickupTime == IF fd.pickupTime = NoTime
                      THEN "pickupTime" :> <<"Pickup time is required">>
                      ELSE NoErrors
        returnTime == IF fd.returnTime = NoTime
                      THEN "returnTime" :> <<"Return time is required">>
                      ELSE NoErrors
        order == IF /\ fd.pickupDate # NoDate /\ fd.returnDate # NoDate
                    /\ fd.pickupTime # NoTime /\ fd.returnTime # NoTime
                    /\ ParseDateTime(z, fd.returnDate, fd.returnTime)
                         <= ParseDateTime(z, fd.pickupDate, fd.pickupTime)
                 THEN "returnTime" :> <<"Return time must be after pickup time">>
                 ELSE NoErrors
    IN  order @@ returnTime @@ pickupTime

validateForm(fd, z) ==
    LET common == AddressErrors(fd) @@ ContactErrors(fd) @@ NameErrors(fd)
    IN  IF fd.bookingType = "weekly"
        THEN WeeklyReturnDateErrors(fd)
               @@ PickupDateErrors(fd, z, "Pickup date is required for weekly bookings")
               @@ WeeksErrors(fd) @@ common
        ELSE DailyTimeErrors(fd, z) @@ DailyReturnDateErrors(fd)
               @@ PickupDateErrors(fd, z, "Pickup date is required")
               @@ DaysErrors(fd) @@ common

-----------------------------------------------------------------------------
(* calculatePrice *)

\* Math.floor in the place of Math.round
RoundPercent_Floor(x, p) == Rupees((x * p) \div 10000)

\* calculatePrice with the same-day discount applied to either booking type
calculatePrice_Stacked(bd, fd) ==
    IF bd = NoVehicle
    THEN [pricePerDay |-> 0, totalPrice |-> 0, discount |-> FALSE,
          weeklyDiscount |-> FALSE, originalPrice |-> 0, savings |-> 0]
    ELSE LET weekly == fd.bookingType = "weekly"
             originalPrice == IF weekly THEN bd.pricePerDay * (fd.weeks * 7)
                              ELSE bd.pricePerDay * fd.days
             discount == /\ fd.days = 1
                         /\ \/ Includes(bd.model, <<"P","u","l","s","a","r"," ","1","5","0">>)
                            \/ Includes(bd.model, <<"P","u","l","s","a","r"," ","1","2","5">>)
             afterWeekly == IF weekly THEN (originalPrice * 65 + 50) \div 100
                            ELSE originalPrice
             totalPrice == IF discount THEN (afterWeekly * 90 + 50) \div 100
                           ELSE afterWeekly
         IN  [pricePerDay |-> bd.pricePerDay, totalPrice |-> totalPrice,
              discount |-> discount, weeklyDiscount |-> weekly,
              originalPrice |-> originalPrice,
              savings |-> originalPrice - totalPrice]

\* Math.round(x * p / 100) for an amount x >= 0: a whole number of rupees
RoundPercent(x, p) == Rupees((x * p + 5000) \div 10000)

calculatePrice(bd, fd) ==
    IF bd = NoVehicle
    THEN [pricePerDay |-> 0, totalPrice |-> 0, discount |-> FALSE,
          weeklyDiscount |-> FALSE, originalPrice |-> 0, savings |-> 0]
    ELSE IF fd.bookingType = "weekly"
    THEN LET originalPrice == bd.pricePerDay * (fd.weeks * 7)
             totalPrice == RoundPercent(originalPrice, 65)
         IN  [pricePerDay |-> bd.pricePerDay, totalPrice |-> totalPrice,
              discount |-> FALSE, weeklyDiscount |-> TRUE,
              originalPrice |-> originalPrice,
              savings |-> originalPrice - totalPrice]
    ELSE LET originalPrice == bd.pricePerDay * fd.days
             discount == /\ fd.days = 1
                         /\ \/ Includes(bd.model, <<"P","u","l","s","a","r"," ","1","5","0">>)
                            \/ Includes(bd.model, <<"P","u","l","s","a","r"," ","1","2","5">>)
             totalPrice == IF discount THEN RoundPercent(originalPrice, 90)
                           ELSE originalPrice
         IN  [pricePerDay |-> bd.pricePerDay, totalPrice |-> totalPrice,
              discount |-> discount, weeklyDiscount |-> FALSE,
              originalPrice |-> originalPrice,
              savings |-> IF discount THEN originalPrice - totalPrice ELSE 0]

-----------------------------------------------------------------------------
(* handleInputChange *)

\* form data whose return date follows a change of the booking type too
InputFormData_TypeRecalculates(prev, z, field, value) ==
    LET newData == [prev EXCEPT ![field] = value]
        duration == IF newData.bookingType = "weekly" THEN newData.weeks * 7
                    ELSE newData.days
    IN  IF field \in {"days", "weeks", "pickupDate", "bookingType"}
           /\ newData.pickupDate # NoDate
        THEN [newData EXCEPT !.returnDate = AddDays(z, newData.pickupDate, duration)]
        ELSE newData

\* the new form data: the field set, then the return date recomputed
InputFormData(prev, z, field, value) ==
    LET newData == [prev EXCEPT ![field] = value]
        weekly ==
            IF /\ field = "weeks" \/ (field = "pickupDate" /\ newData.bookingType = "weekly")
               /\ newData.bookingType = "weekly"
               /\ newData.pickupDate # NoDate
               /\ newData.weeks # 0
            THEN [newData EXCEPT !.returnDate = AddDays(z, newData.pickupDate, newData.weeks * 7)]
            ELSE newData
    IN  IF /\ field = "days" \/ (field = "pickupDate" /\ weekly.bookingType = "daily")
           /\ weekly.bookingType = "daily"
           /\ weekly.pickupDate # NoDate
           /\ weekly.days # 0
        THEN [weekly EXCEPT !.returnDate = AddDays(z, weekly.pickupDate, weekly.days)]
        ELSE weekly

\* { ...prev, [field]: undefined } when the field is in errors
ClearError(errs, field) ==
    [f \in DOMAIN errs \ {field} |-> errs[f]]

-----------------------------------------------------------------------------
(* The payloads submitBooking builds from the form data, the vehicle and    *)
(* the price of the render in which the form was submitted                  *)

weeklyPayload(fd, bd, price) ==
    [name |-> Trim(fd.name), contact |-> StripWhitespace(fd.contact),
     address |-> Trim(fd.address), category |-> bd.category, model |-> bd.model,
     price_per_day |-> price.pricePerDay, weeks |-> fd.weeks,
     total_weeks_price |-> price.totalPrice, weekly_discount_percent |-> 35,
     original_price |-> price.originalPrice, savings |-> price.savings,
     status |-> "pending", pickup_date |-> fd.pickupDate,
     return_date |-> fd.returnDate]

supabasePayload(fd, bd, price) ==
    [name |-> Trim(fd.name), contact |-> StripWhitespace(fd.contact),
     address |-> Trim(fd.address), category |-> bd.category, model |-> bd.model,
     price_per_day |-> price.pricePerDay, days |-> fd.days,
     total_price |-> price.totalPrice, status |-> "pending",
     rental_type |-> "daily", pickup_date |-> fd.pickupDate,
     return_date |-> fd.returnDate, pickup_time |-> fd.pickupTime,
     return_time |-> fd.returnTime]

commonPayload(fd, bd, price, now) ==
    [name |-> Trim(fd.name), contact |-> StripWhitespace(fd.contact),
     address |-> Trim(fd.address), category |-> bd.category, model |-> bd.model,
     pricePerDay |-> price.pricePerDay, days |-> fd.days,
     totalPrice |-> price.totalPrice, timestamp |-> now]

\* the row submitToSupabase inserts: the dates and times only when set
bookingPayload(payload) ==
    LET keys == {"name", "contact", "address", "category", "model",
                 "price_per_day", "status", "rental_type", "days", "total_price"}
                \cup (IF payload.pickup_date # NoDate THEN {"pickup_date"} ELSE {})
                \cup (IF payload.return_date # NoDate THEN {"return_date"} ELSE {})
                \cup (IF payload.pickup_time # NoTime THEN {"pickup_time"} ELSE {})
                \cup (IF payload.return_time # NoTime THEN {"return_time"} ELSE {})
    IN  [k \in keys |-> payload[k]]

-----------------------------------------------------------------------------
(* submitBooking.  A context c carries what one run of the function reads   *)
(* and writes: its task record and the state it shares.                     *)

Context(task) ==
    [task |-> task, ok |-> FALSE, currentStep |-> currentStep,
     isSubmitting |-> isSubmitting, bookings |-> bookings,
     weekly_bookings |-> weekly_bookings, relayPosts |-> relayPosts,
     pendingBookings |-> pendingBookings, clock |-> clock]

Attempt(tier, target, status, sent, cause) ==
    [tier |-> tier, target |-> target, status |-> status, sent |-> sent,
     cause |-> cause]

AddAttempt(c, a) ==
    [c EXCEPT !.task.attempts = Append(@, a)]

SettleAttempt(c, status, cause) ==
    [c EXCEPT !.task.attempts[Len(c.task.attempts)].status = status,
              !.task.attempts[Len(c.task.attempts)].cause = cause]

\* the payloads a call builds from the formData and bookingData of its render
TaskWeeklyPayload(task) ==
    weeklyPayload(task.formData, task.bookingData,
                  calculatePrice(task.bookingData, task.formData))

TaskSupabasePayload(task) ==
    supabasePayload(task.formData, task.bookingData,
                    calculatePrice(task.bookingData, task.formData))

TaskCommonPayload(task) ==
    commonPayload(task.formData, task.bookingData,
                  calculatePrice(task.bookingData, task.formData), task.timestamp)

RemoteTable(task) ==
    IF task.bookingType = "weekly" THEN "weekly_bookings" ELSE "bookings"

\* submitToSupabase / submitWeeklyBookingToSupabase up to the await: without
\* the credentials it throws and returns false, else the insert is sent
SupabaseSend(c, envOk) ==
    IF ~envOk
    THEN [AddAttempt(c, Attempt("remote", RemoteTable(c.task), "failed", FALSE, "config"))
            EXCEPT !.ok = FALSE]
    ELSE [AddAttempt(c, Attempt("remote", RemoteTable(c.task), "inflight", TRUE, ""))
            EXCEPT !.task.pc = "remote"]

\* both inserts going to the table 'bookings'
SupabaseSettle_OneTable(c, outcome) ==
    LET row == [sub |-> c.task.sub,
                row |-> IF c.task.bookingType = "weekly"
                        THEN TaskWeeklyPayload(c.task)
                        ELSE bookingPayload(TaskSupabasePayload(c.task))]
    IN  IF outcome = "ok"
        THEN [SettleAttempt(c, "ok", "") EXCEPT !.ok = TRUE, !.bookings = Append(@, row)]
        ELSE IF outcome = "error"
        THEN [SettleAttempt(c, "failed", "error")
                EXCEPT !.ok = FALSE,
                       !.task.alerts = Append(@, IF c.task.bookingType = "weekly"
                                                 THEN "Weekly Booking Supabase Error"
                                                 ELSE "Supabase Error")]
        ELSE [SettleAttempt(c, "failed", "throw") EXCEPT !.ok = FALSE]

\* an insert that leaves the table alone when it holds an equal row
SupabaseSettle_Deduplicated(c, outcome) ==
    LET row == [sub |-> c.task.sub,
                row |-> IF c.task.bookingType = "weekly"
                        THEN TaskWeeklyPayload(c.task)
                        ELSE bookingPayload(TaskSupabasePayload(c.task))]
        Fresh(table) == \A k \in DOMAIN table : table[k].row # row.row
    IN  IF outcome = "ok"
        THEN LET d == SettleAttempt(c, "ok", "")
             IN  IF c.task.bookingType = "weekly"
                 THEN [d EXCEPT !.ok = TRUE,
                                !.weekly_bookings = IF Fresh(@) THEN Append(@, row) ELSE @]
                 ELSE [d EXCEPT !.ok = TRUE,
                                !.bookings = IF Fresh(@) THEN Append(@, row) ELSE @]
        ELSE IF outcome = "error"
        THEN [SettleAttempt(c, "failed", "error")
                EXCEPT !.ok = FALSE,
                       !.task.alerts = Append(@, IF c.task.bookingType = "weekly"
                                                 THEN "Weekly Booking Supabase Error"
                                                 ELSE "Supabase Error")]
        ELSE [SettleAttempt(c, "failed", "throw") EXCEPT !.ok = FALSE]

\* an insert whose error is logged and not alerted
SupabaseSettle_Silent(c, outcome) ==
    LET row == [sub |-> c.task.sub,
                row |-> IF c.task.bookingType = "weekly"
                        THEN TaskWeeklyPayload(c.task)
                        ELSE bookingPayload(TaskSupabasePayload(c.task))]
    IN  IF outcome = "ok"
        THEN LET d == SettleAttempt(c, "ok", "")
             IN  IF c.task.bookingType = "weekly"
                 THEN [d EXCEPT !.ok = TRUE, !.weekly_bookings = Append(@, row)]
                 ELSE [d EXCEPT !.ok = TRUE, !.bookings = Append(@, row)]
        ELSE IF outcome = "error"
        THEN [SettleAttempt(c, "failed", "error") EXCEPT !.ok = FALSE]
        ELSE [SettleAttempt(c, "failed", "throw") EXCEPT !.ok = FALSE]

\* submitToSupabase / submitWeeklyBookingToSupabase after the await
SupabaseSettle(c, outcome) ==
    LET row == [sub |-> c.task.sub,
                row |-> IF c.task.bookingType = "weekly"
                        THEN TaskWeeklyPayload(c.task)
                        ELSE bookingPayload(TaskSupabasePayload(c.task))]
    IN  IF outcome = "ok"
        THEN LET d == SettleAttempt(c, "ok", "")
             IN  IF c.task.bookingType = "weekly"
                 THEN [d EXCEPT !.ok = TRUE, !.weekly_bookings = Append(@, row)]
                 ELSE [d EXCEPT !.ok = TRUE, !.bookings = Append(@, row)]
        ELSE IF outcome = "error"
        THEN [SettleAttempt(c, "failed", "error")
                EXCEPT !.ok = FALSE,
                       !.task.alerts = Append(@, IF c.task.bookingType = "weekly"
                                                 THEN "Weekly Booking Supabase Error"
                                                 ELSE "Supabase Error")]
        ELSE [SettleAttempt(c, "failed", "throw") EXCEPT !.ok = FALSE]

\* submitToGoogleForm up to the await: the POST is issued
GoogleFormSend(c) ==
    [AddAttempt(c, Attempt("relay", "relay", "inflight", TRUE, ""))
       EXCEPT !.task.pc = "relay",
              !.relayPosts = Append(@, [sub |-> c.task.sub, body |-> TaskCommonPayload(c.task)])]

\* a relay tier that reads the response and fails on a refusal
GoogleFormSettle_ResponseRead(c, answer) ==
    IF answer = "stored"
    THEN [SettleAttempt(c, "ok", answer) EXCEPT !.ok = TRUE]
    ELSE [SettleAttempt(c, "failed", answer) EXCEPT !.ok = FALSE]

\* submitToGoogleForm after the await: true unless fetch threw; the response
\* (opaque under mode 'no-cors') is not read, whatever the endpoint answered
GoogleFormSettle(c, answer) ==
    IF answer # "threw"
    THEN [SettleAttempt(c, "ok", answer) EXCEPT !.ok = TRUE]
    ELSE [SettleAttempt(c, "failed", answer) EXCEPT !.ok = FALSE]

\* storeBookingLocally putting the new entry in front of the existing ones
storeBookingLocally_Unshift(c, payload, storageOk) ==
    IF storageOk
    THEN LET bookingWithTimestamp ==
                 ("savedAt" :> c.clock) @@ ("id" :> <<"local-", c.clock>>) @@ payload
         IN  [AddAttempt(c, Attempt("local", "pendingBookings", "ok", TRUE, ""))
                EXCEPT !.ok = TRUE,
                       !.clock = @ + 1,
                       !.pendingBookings =
                           <<[sub |-> c.task.sub, entry |-> bookingWithTimestamp]>> \o @]
    ELSE [AddAttempt(c, Attempt("local", "pendingBookings", "failed", FALSE, "throw"))
            EXCEPT !.ok = FALSE]

\* storeBookingLocally: false when reading, parsing or writing the slot throws
storeBookingLocally(c, payload, storageOk) ==
    IF storageOk
    THEN LET bookingWithTimestamp ==
                 ("savedAt" :> c.clock) @@ ("id" :> <<"local-", c.clock>>) @@ payload
         IN  [AddAttempt(c, Attempt("local", "pendingBookings", "ok", TRUE, ""))
                EXCEPT !.ok = TRUE,
                       !.clock = @ + 1,
                       !.pendingBookings =
                           Append(@, [sub |-> c.task.sub, entry |-> bookingWithTimestamp])]
    ELSE [AddAttempt(c, Attempt("local", "pendingBookings", "failed", FALSE, "throw"))
            EXCEPT !.ok = FALSE]

\* the payload the local tier receives: the weekly one is stamped on the way
LocalPayload(c) ==
    IF c.task.bookingType = "weekly"
    THEN ("bookingType" :> "weekly") @@ ("timestamp" :> c.clock)
           @@ TaskWeeklyPayload(c.task)
    ELSE TaskCommonPayload(c.task)

\* the end of submitBooking with the confirmation shown whatever the tiers returned
Finish_AlwaysThanks(c) ==
    [c EXCEPT !.task.pc = "done", !.isSubmitting = FALSE,
              !.currentStep = "thank-you", !.task.outcome = "thank-you"]

\* the end of the try block and the finally block
Finish(c) ==
    LET d == [c EXCEPT !.task.pc = "done", !.isSubmitting = FALSE]
    IN  IF c.ok
        THEN [d EXCEPT !.currentStep = "thank-you", !.task.outcome = "thank-you"]
        ELSE [d EXCEPT !.task.outcome = "alert",
                       !.task.alerts = Append(@, "There was an error submitting your booking")]

\* the last tier
LocalTier(c, storageOk) ==
    Finish(storeBookingLocally(c, LocalPayload(c), storageOk))

\* the remote tier followed by local storage for either booking type
AfterSupabase_SkipRelay(c, storageOk) ==
    IF c.ok THEN Finish(c) ELSE LocalTier(c, storageOk)

\* the remote tier followed by the form relay for either booking type
AfterSupabase_WeeklyRelay(c, storageOk) ==
    IF c.ok THEN Finish(c) ELSE GoogleFormSend(c)

\* what follows the remote tier once it returned c.ok
AfterSupabase(c, storageOk) ==
    IF c.ok THEN Finish(c)
    ELSE IF c.task.bookingType = "weekly" THEN LocalTier(c, storageOk)
    ELSE GoogleFormSend(c)

\* the form-relay tier followed by local storage whatever it returned
AfterGoogleForm_Always(c, storageOk) ==
    LocalTier(c, storageOk)

\* what follows the form-relay tier once it returned c.ok
AfterGoogleForm(c, storageOk) ==
    IF c.ok THEN Finish(c) ELSE LocalTier(c, storageOk)

\* submitBooking from its start to its first suspension (or its end)
SubmitBookingStart(envOk, storageOk) ==
    LET task == [sub |-> submitted + 1,
                 bookingType |-> formData.bookingType,
                 formData |-> formData,
                 bookingData |-> bookingData,
                 timestamp |-> clock,
                 pc |-> "start", attempts |-> <<>>, alerts |-> <<>>,
                 outcome |-> "pending", session |-> "current"]
        c0 == [Context(task) EXCEPT !.isSubmitting = TRUE, !.clock = @ + 1]
        c1 == SupabaseSend(c0, envOk)
    IN  IF c1.task.pc = "remote" THEN c1 ELSE AfterSupabase(c1, storageOk)

\* the suspended calls once the modal opens again: they belong to an earlier
\* session of the modal
EarlierSession(calls) ==
    [i \in DOMAIN calls |-> [calls[i] EXCEPT !.session = "earlier"]]

\* lastDone before any call ended
NoTask == [pc |-> "none"]

\* the state a context leaves behind
Commit(c) ==
    /\ currentStep' = c.currentStep
    /\ isSubmitting' = c.isSubmitting
    /\ bookings' = c.bookings
    /\ weekly_bookings' = c.weekly_bookings
    /\ relayPosts' = c.relayPosts
    /\ pendingBookings' = c.pendingBookings
    /\ clock' = c.clock
    /\ lastDone' = IF c.task.pc = "done" THEN c.task ELSE lastDone

-----------------------------------------------------------------------------
(* What the component renders *)

\* line 748: nothing is rendered without isOpen and bookingData
Rendered == isOpen /\ bookingData # NoVehicle

FormRendered == Rendered /\ currentStep = "form"

\* the inputs and the buttons of the form carry disabled={isSubmitting}
FormEnabled == FormRendered /\ ~isSubmitting

-----------------------------------------------------------------------------
(* The events of the form *)

handleInputChange(field, value) ==
    /\ formData' = InputFormData(formData, zone, field, value)
    /\ errors' = IF field \in DOMAIN errors THEN ClearError(errors, field) ELSE errors
    /\ UNCHANGED <<isOpen, bookingData, currentStep, isSubmitting, escSubmitting,
                   inflight, lastDone, submitted, bookings, weekly_bookings,
                   relayPosts, pendingBookings, clock, credentials, supabase,
                   zone, tabs, contacts, contactCall>>

\* the field the duration input edits
DurationField == IF formData.bookingType = "weekly" THEN "weeks" ELSE "days"

\* onChange of the name, contact and address inputs
ChangeText(field, text) ==
    /\ FormEnabled
    /\ handleInputChange(field, text)

\* onClick of the two booking type buttons
SelectBookingType(type) ==
    /\ FormEnabled
    /\ handleInputChange("bookingType", type)

\* the duration input's number without the upper limit
DurationValue_Unclamped(text) ==
    LET digits == KeepDigits(text)
        numValue == DigitsValue(digits)
    IN  IF text = <<>> \/ digits = <<>> THEN 0
        ELSE IF numValue < 1 THEN 1
        ELSE numValue

\* the number the duration input's onChange passes on, 0 when it returns early
DurationValue(text) ==
    LET digits == KeepDigits(text)
        maxValue == IF formData.bookingType = "weekly" THEN 12 ELSE 30
        numValue == DigitsValue(digits)
    IN  IF text = <<>> \/ digits = <<>> THEN 0
        ELSE IF numValue > maxValue THEN maxValue
        ELSE IF numValue < 1 THEN 1
        ELSE numValue

\* onChange of the duration input
ChangeDuration(text) ==
    /\ FormEnabled
    /\ IF DurationValue(text) = 0
       THEN UNCHANGED vars
       ELSE handleInputChange(DurationField, DurationValue(text))

\* onBlur of the duration input, whose text an emptying Backspace left empty
BlurDuration(text) ==
    /\ FormEnabled
    /\ IF text = <<>> \/ DigitsValue(KeepDigits(text)) < 1
       THEN handleInputChange(DurationField, 1)
       ELSE UNCHANGED vars

\* onChange of the pickup date input of either booking type
ChangePickupDate(date) ==
    /\ FormEnabled
    /\ handleInputChange("pickupDate", date)

\* onChange of the return date input, which only the weekly form lets edit
ChangeReturnDate(date) ==
    /\ FormEnabled
    /\ formData.bookingType = "weekly"
    /\ handleInputChange("returnDate", date)

\* onChange of the time inputs, which only the daily form shows
ChangeTime(field, time) ==
    /\ FormEnabled
    /\ formData.bookingType = "daily"
    /\ handleInputChange(field, time)

\* handleSubmit calling submitBooking whatever validateForm returned
handleSubmit_Unchecked(storageOk) ==
    LET newErrors == validateForm(formData, zone)
    IN  /\ errors' = newErrors
        /\ UNCHANGED <<isOpen, bookingData, formData, escSubmitting, credentials,
                       supabase, zone, tabs, contacts, contactCall>>
        /\ IF bookingData = NoVehicle
           THEN UNCHANGED <<currentStep, isSubmitting, inflight, lastDone,
                            submitted, bookings, weekly_bookings, relayPosts,
                            pendingBookings, clock>>
           ELSE LET c == SubmitBookingStart(credentials, storageOk)
                IN  /\ inflight' = IF c.task.pc = "done" THEN inflight
                                   ELSE Append(inflight, c.task)
                    /\ submitted' = submitted + 1
                    /\ Commit(c)

\* handleSubmit: validateForm, then submitBooking
handleSubmit(storageOk) ==
    LET newErrors == validateForm(formData, zone)
    IN  /\ errors' = newErrors
        /\ UNCHANGED <<isOpen, bookingData, formData, escSubmitting, credentials, supabase,
                   zone, tabs, contacts, contactCall>>
        /\ IF newErrors # NoErrors \/ bookingData = NoVehicle
           THEN UNCHANGED <<currentStep, isSubmitting, inflight, lastDone,
                            submitted, bookings, weekly_bookings, relayPosts,
                            pendingBookings, clock>>
           ELSE LET c == SubmitBookingStart(credentials, storageOk)
                IN  /\ inflight' = IF c.task.pc = "done" THEN inflight
                                   ELSE Append(inflight, c.task)
                    /\ submitted' = submitted + 1
                    /\ Commit(c)

\* the submit event of the form; the submit button carries disabled={isSubmitting}
Submit(storageOk) ==
    /\ FormEnabled
    /\ submitted < MaxSubmissions
    /\ handleSubmit(storageOk)

-----------------------------------------------------------------------------
(* The completions of the awaited calls *)

\* the suspended calls once call i ran on as task: it waits again, or it ended
Resume(calls, i, task) ==
    IF task.pc = "done"
    THEN SubSeq(calls, 1, i - 1) \o SubSeq(calls, i + 1, Len(calls))
    ELSE [calls EXCEPT ![i] = task]

\* the insert of task i settles: a row, an error object, or an exception
SupabaseSettles(i, outcome, storageOk) ==
    /\ i \in DOMAIN inflight
    /\ inflight[i].pc = "remote"
    /\ LET c == AfterSupabase(SupabaseSettle(Context(inflight[i]), outcome), storageOk)
       IN  /\ inflight' = Resume(inflight, i, c.task)
           /\ Commit(c)
    /\ UNCHANGED <<isOpen, bookingData, formData, errors, escSubmitting, submitted,
                   credentials, supabase,
                   zone, tabs, contacts, contactCall>>

\* the fetch of task i settles: it resolves, or it throws
GoogleFormSettles(i, answer, storageOk) ==
    /\ i \in DOMAIN inflight
    /\ inflight[i].pc = "relay"
    /\ LET c == AfterGoogleForm(GoogleFormSettle(Context(inflight[i]), answer), storageOk)
       IN  /\ inflight' = Resume(inflight, i, c.task)
           /\ Commit(c)
    /\ UNCHANGED <<isOpen, bookingData, formData, errors, escSubmitting, submitted,
                   credentials, supabase,
                   zone, tabs, contacts, contactCall>>

-----------------------------------------------------------------------------
(* Opening and closing *)

\* lib/supabase.ts, which the component imports: without the credentials the
\* module throws while it loads, and nothing that imports it is ever rendered
createClient(env) == IF env THEN "client" ELSE "threw"

\* the modal opening without the reset of currentStep
OpenModal_KeepStep(bd) ==
    /\ supabase = "client"
    /\ ~isOpen
    /\ isOpen' = TRUE
    /\ bookingData' = bd
    /\ escSubmitting' = isSubmitting
    /\ formData' = DefaultFormData
    /\ errors' = NoErrors
    /\ isSubmitting' = FALSE
    /\ UNCHANGED <<currentStep, inflight, lastDone, submitted, bookings,
                   weekly_bookings, relayPosts, pendingBookings, clock, credentials,
                   supabase, zone, tabs, contacts, contactCall>>

\* the parent shows the modal: the two effects on [isOpen] run, the first
\* registering handleEscape with the handleClose of this render, the second
\* resetting the state
OpenModal(bd) ==
    /\ supabase = "client"
    /\ ~isOpen
    /\ isOpen' = TRUE
    /\ bookingData' = bd
    /\ escSubmitting' = isSubmitting
    /\ currentStep' = "form"
    /\ formData' = DefaultFormData
    /\ errors' = NoErrors
    /\ isSubmitting' = FALSE
    /\ inflight' = EarlierSession(inflight)
    /\ UNCHANGED <<lastDone, submitted, bookings, weekly_bookings, relayPosts,
                   pendingBookings, clock, credentials, supabase,
                   zone, tabs, contacts, contactCall>>

\* onClose: the parent hides the modal, the Escape listener is removed
onClose ==
    /\ isOpen' = FALSE
    /\ escSubmitting' = FALSE
    /\ UNCHANGED <<bookingData, currentStep, formData, errors, isSubmitting,
                   inflight, lastDone, submitted, bookings, weekly_bookings,
                   relayPosts, pendingBookings, clock, credentials, supabase,
                   zone, tabs, contacts, contactCall>>

\* handleClose of the current render: the close button, Cancel, the backdrop
\* and the Close button of the confirmation
handleClose ==
    /\ Rendered
    /\ IF ~isSubmitting THEN onClose ELSE UNCHANGED vars

\* handleEscape: the handleClose of the render in which the modal opened
handleEscape ==
    /\ isOpen
    /\ IF ~escSubmitting THEN onClose ELSE UNCHANGED vars

-----------------------------------------------------------------------------
(* storeBookingLocally in other tabs of the site, which share the slot      *)
(* 'pendingBookings': between reading the slot and writing it back another   *)
(* tab may run                                                              *)

Tabs == {"tab1", "tab2"}

IdleTab == [pc |-> "idle", existingBookings |-> <<>>, saves |-> 0]

\* the booking a tab falls back with
TabForm ==
    [DefaultFormData EXCEPT !.name = <<"R","a","v","i">>,
                            !.contact = <<"9","8","7","6","5","4","3","2","1","0">>,
                            !.address = <<"1","2"," ","M","G"," ","R","o","a","d">>,
                            !.pickupDate = Today + 1, !.returnDate = Today + 2]

TabPayload(now) ==
    commonPayload(TabForm, Pulsar150, calculatePrice(Pulsar150, TabForm), now)

\* the unchanged state of this tab's modal and contact form
ModalUnchanged ==
    UNCHANGED <<isOpen, bookingData, currentStep, formData, errors, isSubmitting,
                escSubmitting, inflight, lastDone, submitted, bookings,
                weekly_bookings, relayPosts, credentials, supabase, zone,
                contacts, contactCall>>

\* existingBookings = JSON.parse(localStorage.getItem('pendingBookings') || '[]')
TabGetItem(t) ==
    /\ tabs[t].pc = "idle"
    /\ tabs[t].saves < MaxTabSaves
    /\ tabs' = [tabs EXCEPT ![t].pc = "read", ![t].existingBookings = pendingBookings]
    /\ UNCHANGED <<pendingBookings, clock>>
    /\ ModalUnchanged

\* a write that appends to what the slot holds now
TabSetItem_Merged(t) ==
    /\ tabs[t].pc = "read"
    /\ LET bookingWithTimestamp ==
               ("savedAt" :> clock) @@ ("id" :> <<"local-", clock>>) @@ TabPayload(clock)
           new == [sub |-> <<t, tabs[t].saves + 1>>, entry |-> bookingWithTimestamp]
       IN  /\ pendingBookings' = Append(pendingBookings, new)
           /\ tabs' = [tabs EXCEPT ![t] =
                          [pc |-> "idle",
                           existingBookings |-> Append(tabs[t].existingBookings, new),
                           saves |-> tabs[t].saves + 1]]
    /\ clock' = clock + 1
    /\ ModalUnchanged

\* existingBookings.push(bookingWithTimestamp);
\* localStorage.setItem('pendingBookings', JSON.stringify(existingBookings))
TabSetItem(t) ==
    /\ tabs[t].pc = "read"
    /\ LET bookingWithTimestamp ==
               ("savedAt" :> clock) @@ ("id" :> <<"local-", clock>>) @@ TabPayload(clock)
           new == [sub |-> <<t, tabs[t].saves + 1>>, entry |-> bookingWithTimestamp]
           existingBookings == Append(tabs[t].existingBookings, new)
       IN  /\ pendingBookings' = existingBookings
           /\ tabs' = [tabs EXCEPT ![t] =
                          [pc |-> "idle", existingBookings |-> existingBookings,
                           saves |-> tabs[t].saves + 1]]
    /\ clock' = clock + 1
    /\ ModalUnchanged


-----------------------------------------------------------------------------
(* lib/supabase.ts: createContactMessage, which the contact form calls      *)

NoContactCall == [pc |-> "idle", n |-> 0, attempts |-> <<>>]

\* contactData.phone || null, with "" for a phone left out
PhoneOrNull(contactData) ==
    IF contactData.phone = "" THEN "null" ELSE contactData.phone

\* contactData.phone || contactData.email
PhoneOrEmail(contactData) ==
    IF contactData.phone = "" THEN contactData.email ELSE contactData.phone

\* s.substring(0, 255)
Substring255(s) == SubSeq(s, 1, IF Len(s) < 255 THEN Len(s) ELSE 255)

\* the row for the table 'contacts'
ContactsRow(contactData) ==
    [name |-> contactData.name, email |-> contactData.email,
     phone |-> PhoneOrNull(contactData), subject |-> contactData.subject,
     message |-> contactData.message, status |-> "new"]

\* the fallback: the contact form data as a booking
ContactAsBooking(contactData) ==
    [name |-> contactData.name, contact |-> PhoneOrEmail(contactData),
     address |-> Substring255(contactData.message), category |-> "Contact Form",
     model |-> contactData.subject, price_per_day |-> 0, days |-> 1,
     total_price |-> 0, rental_type |-> "contact",
     status |-> <<"CONTACT: ", contactData.email>>]

\* what createContactMessage leaves alone
ContactFormUnchanged ==
    UNCHANGED <<isOpen, bookingData, currentStep, formData, errors, isSubmitting,
                escSubmitting, inflight, lastDone, submitted, weekly_bookings,
                relayPosts, pendingBookings, clock, credentials, supabase, zone,
                tabs>>

\* createContactMessage up to its first await: the insert into 'contacts' is sent
createContactMessage(contactData) ==
    /\ supabase = "client"
    /\ contactCall.pc \in {"idle", "returned", "threw"}
    /\ contactCall.n < MaxMessages
    /\ contactCall' = [pc |-> "contacts", n |-> contactCall.n + 1,
                       contactData |-> contactData,
                       attempts |-> <<[table |-> "contacts", status |-> "inflight"]>>]
    /\ UNCHANGED <<contacts, bookings>>
    /\ ContactFormUnchanged

\* the call with its last attempt settled as status, at pc
ContactCallSettled(status, pc) ==
    [contactCall EXCEPT !.pc = pc,
                        !.attempts[Len(contactCall.attempts)].status = status]

\* the insert into 'contacts' settles: without an error the function returns,
\* with one it sends the insert into 'bookings', and a rejection is rethrown
ContactsInsertSettles(outcome) ==
    /\ contactCall.pc = "contacts"
    /\ CASE outcome = "ok" ->
              /\ contacts' = Append(contacts, [sub |-> contactCall.n,
                                               row |-> ContactsRow(contactCall.contactData)])
              /\ contactCall' = ContactCallSettled("ok", "returned")
         [] outcome = "error" ->
              /\ contacts' = contacts
              /\ contactCall' =
                     [ContactCallSettled("error", "bookings") EXCEPT
                         !.attempts = Append(@, [table |-> "bookings",
                                                 status |-> "inflight"])]
         [] OTHER ->
              /\ contacts' = contacts
              /\ contactCall' = ContactCallSettled("throw", "threw")
    /\ UNCHANGED bookings
    /\ ContactFormUnchanged

\* a fallback whose error is logged and not thrown
BookingsInsertSettles_Swallowed(outcome) ==
    /\ contactCall.pc = "bookings"
    /\ IF outcome = "ok"
       THEN /\ bookings' = Append(bookings,
                                  [sub |-> <<"contact", contactCall.n>>,
                                   row |-> ContactAsBooking(contactCall.contactData)])
            /\ contactCall' = ContactCallSettled("ok", "returned")
       ELSE /\ bookings' = bookings
            /\ contactCall' = ContactCallSettled(outcome, "returned")
    /\ UNCHANGED contacts
    /\ ContactFormUnchanged

\* the insert into 'bookings' settles: without an error the function returns,
\* with one, or on a rejection, it throws
BookingsInsertSettles(outcome) ==
    /\ contactCall.pc = "bookings"
    /\ IF outcome = "ok"
       THEN /\ bookings' = Append(bookings,
                                  [sub |-> <<"contact", contactCall.n>>,
                                   row |-> ContactAsBooking(contactCall.contactData)])
            /\ contactCall' = ContactCallSettled("ok", "returned")
       ELSE /\ bookings' = bookings
            /\ contactCall' = ContactCallSettled(outcome, "threw")
    /\ UNCHANGED contacts
    /\ ContactFormUnchanged

-----------------------------------------------------------------------------
(* The inputs explored *)

TimeZones == {Kolkata}

Catalog == {Pulsar150}

NameInputs == {<<"R","a","v","i">>}

ContactInputs == {<<"9","8","7","6","5","4","3","2","1","0">>}

AddressInputs == {<<"1","2"," ","M","G"," ","R","o","a","d">>}

DurationInputs == {<<"1">>}

BlurInputs == {<<>>}

PickupDateInputs == {Today + 1}

ReturnDateInputs == {Today + 8}

PickupTimeInputs == {540}

ReturnTimeInputs == {1080}

\* what becomes of the POST to the relay: the endpoint stored the booking, it
\* answered with an error, or fetch threw (no network)
RelayAnswers == {"stored", "refused", "threw"}

SupabaseOutcomes == {"ok", "error"}

Init ==
    /\ isOpen = FALSE
    /\ bookingData = NoVehicle
    /\ currentStep = "form"
    /\ formData = DefaultFormData
    /\ errors = NoErrors
    /\ isSubmitting = FALSE
    /\ escSubmitting = FALSE
    /\ inflight = <<>>
    /\ lastDone = NoTask
    /\ submitted = 0
    /\ bookings = <<>>
    /\ weekly_bookings = <<>>
    /\ relayPosts = <<>>
    /\ pendingBookings = <<>>
    /\ clock = 1
    /\ zone \in TimeZones
    /\ credentials \in BOOLEAN
    /\ supabase = createClient(credentials)
    /\ tabs = [t \in Tabs |-> IdleTab]
    /\ contacts = <<>>
    /\ contactCall = NoContactCall

Next ==
    \/ \E bd \in Catalog \cup {NoVehicle} : OpenModal(bd)
    \/ handleClose
    \/ handleEscape
    \/ \E text \in NameInputs : ChangeText("name", text)
    \/ \E text \in ContactInputs : ChangeText("contact", text)
    \/ \E text \in AddressInputs : ChangeText("address", text)
    \/ \E type \in {"daily", "weekly"} : SelectBookingType(type)
    \/ \E text \in DurationInputs : ChangeDuration(text)
    \/ \E text \in BlurInputs : BlurDuration(text)
    \/ \E date \in PickupDateInputs : ChangePickupDate(date)
    \/ \E date \in ReturnDateInputs : ChangeReturnDate(date)
    \/ \E time \in PickupTimeInputs : ChangeTime("pickupTime", time)
    \/ \E time \in ReturnTimeInputs : ChangeTime("returnTime", time)
    \/ \E storageOk \in BOOLEAN : Submit(storageOk)
    \/ \E i \in 1..MaxSubmissions, outcome \in SupabaseOutcomes, storageOk \in BOOLEAN :
           SupabaseSettles(i, outcome, storageOk)
    \/ \E i \in 1..MaxSubmissions, answer \in RelayAnswers, storageOk \in BOOLEAN :
           GoogleFormSettles(i, answer, storageOk)

Spec == Init /\ [][Next]_vars

-----------------------------------------------------------------------------
(* The form on its own: more values of the dates and the durations, in two  *)
(* time zones, up to the first call of submitBooking                        *)

FormTimeZones == {Kolkata, Berlin}

FormDurationInputs == {<<"1">>, <<"2">>, <<"4","5">>}

FormPickupDateInputs == {NoDate, Today - 1, Today + 1, Today + 2}

FormReturnDateInputs == {Today + 1, Today + 6, Today + 10}

InitForm ==
    /\ isOpen = FALSE
    /\ bookingData = NoVehicle
    /\ currentStep = "form"
    /\ formData = DefaultFormData
    /\ errors = NoErrors
    /\ isSubmitting = FALSE
    /\ escSubmitting = FALSE
    /\ inflight = <<>>
    /\ lastDone = NoTask
    /\ submitted = 0
    /\ bookings = <<>>
    /\ weekly_bookings = <<>>
    /\ relayPosts = <<>>
    /\ pendingBookings = <<>>
    /\ clock = 1
    /\ zone \in FormTimeZones
    /\ credentials = TRUE
    /\ supabase = createClient(credentials)
    /\ tabs = [t \in Tabs |-> IdleTab]
    /\ contacts = <<>>
    /\ contactCall = NoContactCall

NextForm ==
    \/ \E bd \in Catalog : OpenModal(bd)
    \/ \E text \in NameInputs : ChangeText("name", text)
    \/ \E text \in ContactInputs : ChangeText("contact", text)
    \/ \E text \in AddressInputs : ChangeText("address", text)
    \/ \E type \in {"daily", "weekly"} : SelectBookingType(type)
    \/ \E text \in FormDurationInputs : ChangeDuration(text)
    \/ \E date \in FormPickupDateInputs : ChangePickupDate(date)
    \/ \E date \in FormReturnDateInputs : ChangeReturnDate(date)
    \/ \E storageOk \in BOOLEAN : Submit(storageOk)

SpecForm == InitForm /\ [][NextForm]_vars

-----------------------------------------------------------------------------
(* The quote on its own: the prices, the model names and every duration the *)
(* duration input lets through                                              *)

Pulsar125Name == <<"P","u","l","s","a","r"," ","1","2","5"," ","N","e","o">>

LowerCaseName == <<"p","u","l","s","a","r"," ","1","5","0">>

ModelInputs == {PulsarName, Pulsar125Name, ActivaName, LowerCaseName}

\* whole prices, and prices of 0, 0.12, 0.60 and 1.70
PriceInputs == {Rupees(5), Rupees(333), Rupees(550), Rupees(625), 0, 12, 60, 170}

PriceCatalog ==
    {[category |-> "Normal Bikes", model |-> mo, pricePerDay |-> pr] :
         mo \in ModelInputs, pr \in PriceInputs}

PriceDurationInputs == {DecimalText(n) : n \in 0..MaxDurationTyped}

InitPrice == InitForm /\ zone = Kolkata

NextPrice ==
    \/ \E bd \in PriceCatalog : OpenModal(bd)
    \/ \E type \in {"daily", "weekly"} : SelectBookingType(type)
    \/ \E text \in PriceDurationInputs : ChangeDuration(text)

SpecPrice == InitPrice /\ [][NextPrice]_vars

\* two other tabs running the local-storage fallback
InitTabs == InitForm /\ zone = Kolkata

NextTabs ==
    \/ \E t \in Tabs : TabGetItem(t)
    \/ \E t \in Tabs : TabSetItem(t)

SpecTabs == InitTabs /\ [][NextTabs]_vars

\* the contact field on its own: the texts typed into it
ContactTexts ==
    {<<>>,
     <<" ", " ">>,
     <<"1","2","3","4","5">>,
     <<"9","8","7","6","5","4","3","2","1","0">>,
     <<"+","9","1","9","8","7","6","5","4","3","2","1","0">>,
     <<"+","9","1"," ","9","8","7","6","5"," ","4","3","2","1","0">>,
     <<" ","6","0","0","0","0","\t","0","0","0","0","0","\n">>,
     <<"5","8","7","6","5","4","3","2","1","0">>,
     <<"9","8","7","6","5","4","3","2","1">>,
     <<"9","8","7","6","5","4","3","2","1","0","1">>,
     <<"9","8","7","6","5","4","3","2","1","a">>,
     <<"9","1","9","8","7","6","5","4","3","2","1","0">>,
     <<"+","9","2","9","8","7","6","5","4","3","2","1","0">>,
     <<"+","9","1","5","8","7","6","5","4","3","2","1","0">>,
     <<"9","8","7","6","5","-","4","3","2","1","0">>}

InitContact == InitForm /\ zone = Kolkata

NextContact ==
    \/ \E bd \in Catalog : OpenModal(bd)
    \/ \E text \in NameInputs : ChangeText("name", text)
    \/ \E text \in ContactTexts : ChangeText("contact", text)
    \/ \E text \in AddressInputs : ChangeText("address", text)
    \/ \E date \in PickupDateInputs : ChangePickupDate(date)
    \/ \E storageOk \in BOOLEAN : Submit(storageOk)

SpecContact == InitContact /\ [][NextContact]_vars

\* the duration input on its own: the texts typed into it and left in it
DurationTexts ==
    {<<>>, <<"0">>, <<"1">>, <<"0","7">>, <<"1","2">>, <<"1","3">>, <<"3","0">>,
     <<"3","1">>, <<"4","5">>, <<"9","9","9">>, <<"x">>}

DurationBlurTexts == {<<>>, <<"0">>, <<"5">>}

InitDuration == InitForm /\ zone = Kolkata

NextDuration ==
    \/ \E bd \in Catalog : OpenModal(bd)
    \/ \E text \in NameInputs : ChangeText("name", text)
    \/ \E text \in ContactInputs : ChangeText("contact", text)
    \/ \E text \in AddressInputs : ChangeText("address", text)
    \/ \E type \in {"daily", "weekly"} : SelectBookingType(type)
    \/ \E text \in DurationTexts : ChangeDuration(text)
    \/ \E text \in DurationBlurTexts : BlurDuration(text)
    \/ \E date \in PickupDateInputs : ChangePickupDate(date)
    \/ \E storageOk \in BOOLEAN : Submit(storageOk)

SpecDuration == InitDuration /\ [][NextDuration]_vars

\* the contact form: messages with and without a phone number
ContactMessages ==
    {[name |-> "Ravi", email |-> "ravi@example.com", phone |-> ph,
      subject |-> su, message |-> <<"H","e","l","l","o">>] :
         ph \in {"", "9876543210"}, su \in {"Pricing", "Feedback"}}

InsertOutcomes == {"ok", "error", "throw"}

InitMessages == InitForm /\ zone = Kolkata

NextMessages ==
    \/ \E contactData \in ContactMessages : createContactMessage(contactData)
    \/ \E outcome \in InsertOutcomes : ContactsInsertSettles(outcome)
    \/ \E outcome \in InsertOutcomes : BookingsInsertSettles(outcome)

SpecMessages == InitMessages /\ [][NextMessages]_vars

-----------------------------------------------------------------------------
(* The vocabulary of the properties *)

\* the calls of submitBooking the state knows: the suspended ones and the last ended
Calls ==
    {inflight[i] : i \in DOMAIN inflight}
        \cup (IF lastDone.pc = "done" THEN {lastDone} ELSE {})

Tiers(t) == [k \in DOMAIN t.attempts |-> t.attempts[k].tier]

IsPrefix(s, t) == Len(s) <= Len(t) /\ \A k \in DOMAIN s : s[k] = t[k]

\* the positions of store that call number sub wrote
Rows(store, sub) == {k \in DOMAIN store : store[k].sub = sub}

Succeeded(t) == \E k \in DOMAIN t.attempts : t.attempts[k].status = "ok"

\* every tier but the last one started has failed, and only a suspended call
\* has a tier that has not settled
OneTierAtATime(t) ==
    /\ \A k \in 1..(Len(t.attempts) - 1) : t.attempts[k].status = "failed"
    /\ \A k \in DOMAIN t.attempts :
           t.attempts[k].status = "inflight" => k = Len(t.attempts) /\ t.pc # "done"
    /\ t.pc # "done" => t.attempts # <<>> /\ t.attempts[Len(t.attempts)].status = "inflight"

\* a step in which a call of submitBooking ends
Ends == lastDone' # lastDone

FailureAlert == "There was an error submitting your booking"

-----------------------------------------------------------------------------
(* C1..C10 *)

\* C1: a daily submission tries the 'bookings' table, then the form relay, then
\* local storage, in that order; a tier starts only once the one before it has
\* settled with failure, so no two tiers are in flight together, and a call
\* that ended without success has tried all three.
C1_DailyTierOrder ==
    \A t \in Calls :
        t.bookingType = "daily" =>
            /\ IsPrefix(Tiers(t), <<"remote", "relay", "local">>)
            /\ t.attempts # <<>> => t.attempts[1].target = "bookings"
            /\ OneTierAtATime(t)
            /\ t.pc = "done" /\ ~Succeeded(t) => Len(t.attempts) = 3

C1_Witness ==
    /\ lastDone.pc = "done"
    /\ lastDone.bookingType = "daily"
    /\ Tiers(lastDone) = <<"remote", "relay", "local">>
    /\ lastDone.attempts[3].status = "ok"

\* C2: a weekly submission tries the 'weekly_bookings' table and, only when that
\* failed, local storage; it never posts to the form relay.
C2_WeeklySkipsRelay ==
    \A t \in Calls :
        t.bookingType = "weekly" =>
            /\ IsPrefix(Tiers(t), <<"remote", "local">>)
            /\ t.attempts # <<>> => t.attempts[1].target = "weekly_bookings"
            /\ OneTierAtATime(t)
            /\ t.pc = "done" /\ ~Succeeded(t) => Len(t.attempts) = 2
            /\ Rows(relayPosts, t.sub) = {}
            /\ Rows(bookings, t.sub) = {}

C2_Witness ==
    /\ lastDone.pc = "done"
    /\ lastDone.bookingType = "weekly"
    /\ Tiers(lastDone) = <<"remote", "local">>
    /\ lastDone.attempts[2].status = "ok"
    /\ relayPosts = <<>>

\* C3: within one submission no tier is tried twice, a tier that succeeded is
\* the last one tried, and the submission is recorded by at most one tier: at
\* most one row or entry in the two tables and local storage together, at most
\* one post to the relay, and none of the later tiers after a remote row.
C3_EachTierOnce ==
    /\ \A t \in Calls :
           /\ \A j, k \in DOMAIN t.attempts :
                  t.attempts[j].tier = t.attempts[k].tier => j = k
           /\ \A k \in DOMAIN t.attempts :
                  t.attempts[k].status = "ok" => k = Len(t.attempts)
    /\ \A sub \in 1..submitted :
           /\ Cardinality(Rows(bookings, sub)) + Cardinality(Rows(weekly_bookings, sub))
                  + Cardinality(Rows(pendingBookings, sub)) <= 1
           /\ Cardinality(Rows(relayPosts, sub)) <= 1
           /\ Rows(bookings, sub) # {} =>
                  Rows(relayPosts, sub) = {} /\ Rows(pendingBookings, sub) = {}

C3_Witness ==
    /\ lastDone.pc = "done"
    /\ Tiers(lastDone) = <<"remote", "relay">>
    /\ lastDone.attempts[2].status = "ok"
    /\ Cardinality(Rows(relayPosts, lastDone.sub)) = 1
    /\ Rows(pendingBookings, lastDone.sub) = {}
    /\ Rows(bookings, lastDone.sub) = {}

\* C4: the call that ends shows the confirmation exactly when one of its tiers
\* succeeded; when all the tiers of its booking type failed it shows the
\* failure alert, leaves currentStep as it was, and has written no row to
\* either table and no entry to local storage.
C4_EndOfCall ==
    Ends =>
        LET t == lastDone'
        IN  /\ (t.outcome = "thank-you") <=> Succeeded(t)
            /\ Succeeded(t) => currentStep' = "thank-you"
            /\ ~Succeeded(t) =>
                   /\ Len(t.attempts) = IF t.bookingType = "weekly" THEN 2 ELSE 3
                   /\ t.alerts # <<>> /\ t.alerts[Len(t.alerts)] = FailureAlert
                   /\ currentStep' = currentStep
                   /\ Rows(bookings', t.sub) = {}
                   /\ Rows(weekly_bookings', t.sub) = {}
                   /\ Rows(pendingBookings', t.sub) = {}

C4_ThankYouIffSuccess == [][C4_EndOfCall]_vars

C4_Witness ==
    /\ lastDone.pc = "done"
    /\ lastDone.bookingType = "weekly"
    /\ lastDone.outcome = "alert"
    /\ isOpen /\ currentStep = "form"
    /\ weekly_bookings = <<>> /\ pendingBookings = <<>>

\* a daily call ends after its remote write and its relay call failed
DailyFellToLocal ==
    /\ Ends
    /\ lastDone'.bookingType = "daily"
    /\ Len(lastDone'.attempts) = 3
    /\ lastDone'.attempts[1].status = "failed"
    /\ lastDone'.attempts[2].status = "failed"

\* pendingBookings grew by one entry of the call that ends, behind the old ones
OneEntryAppended ==
    /\ Len(pendingBookings') = Len(pendingBookings) + 1
    /\ SubSeq(pendingBookings', 1, Len(pendingBookings)) = pendingBookings
    /\ LET new == pendingBookings'[Len(pendingBookings')]
       IN  /\ new.sub = lastDone'.sub
           /\ new.entry.id[1] = "local-"
           /\ "savedAt" \in DOMAIN new.entry

\* C5 (as amended): when the remote write and the relay call of a daily booking
\* failed and local storage does not throw, pendingBookings grows by exactly
\* one entry behind the unchanged old ones, with an id beginning 'local-' and
\* a savedAt, and the confirmation is shown; when local storage throws,
\* pendingBookings is unchanged and the failure alert is shown.
C5_LocalFallbackUnlessStorageThrows ==
    [][DailyFellToLocal =>
          IF lastDone'.attempts[3].status = "ok"
          THEN OneEntryAppended /\ currentStep' = "thank-you"
          ELSE /\ pendingBookings' = pendingBookings
               /\ lastDone'.outcome = "alert"]_vars

C5_Witness ==
    /\ lastDone.pc = "done"
    /\ lastDone.bookingType = "daily"
    /\ Len(lastDone.attempts) = 3
    /\ lastDone.attempts[3].status = "ok"
    /\ Len(pendingBookings) = 2
    /\ pendingBookings[2].sub = lastDone.sub
    /\ currentStep = "thank-you"

\* C5 (as claimed): whenever the remote write and the relay call of a daily
\* booking failed, pendingBookings grows by exactly one appended entry and the
\* confirmation is shown.
C5_LocalFallbackAlways ==
    [][DailyFellToLocal => OneEntryAppended /\ currentStep' = "thank-you"]_vars

\* C6 (as claimed): at most one call of submitBooking is short of its end.
C6_OneSubmissionInFlight == Len(inflight) <= 1

\* C7 (as claimed): while isSubmitting holds, no step calls onClose, which is
\* the one way the modal stops being open.
C7_NoCloseWhileSubmitting == [][isSubmitting /\ isOpen => isOpen']_vars

\* C8 (as claimed): the modal works without the credentials, the remote tier of
\* a submission then failing into the fallback; so the absence of the
\* credentials leaves the client module loaded.
C8_FallbackWithoutCredentials == ~credentials => supabase = "client"

\* a submit event on a form that validateForm rejects, or without a vehicle
RejectedSubmit ==
    /\ \E storageOk \in BOOLEAN : Submit(storageOk)
    /\ validateForm(formData, zone) # NoErrors \/ bookingData = NoVehicle

\* C9: a call of submitBooking only ever carries a form that validateForm
\* accepts and a vehicle; a rejected submit event leaves isSubmitting false and
\* currentStep 'form', starts no call and writes to no tier.
C9_RejectedSubmitWritesNothing ==
    /\ [](\A t \in Calls : validateForm(t.formData, zone) = NoErrors
                            /\ t.bookingData # NoVehicle)
    /\ [][RejectedSubmit =>
             /\ isSubmitting' = FALSE
             /\ currentStep' = "form"
             /\ errors' # NoErrors \/ bookingData = NoVehicle
             /\ UNCHANGED <<submitted, inflight, bookings, weekly_bookings,
                            relayPosts, pendingBookings>>]_vars

C9_Witness ==
    /\ isOpen /\ bookingData # NoVehicle
    /\ errors # NoErrors
    /\ errors = validateForm(formData, zone)
    /\ ~isSubmitting /\ currentStep = "form"
    /\ submitted = 0

\* C10 (as claimed): every daily booking submitted has returnDate equal to
\* pickupDate + days.
C10_DailyReturnDate ==
    \A t \in Calls :
        t.bookingType = "daily" =>
            t.formData.returnDate = t.formData.pickupDate + t.formData.days


\* the weekly form whose dates agree with its weeks
WeeklyDatesAgree(fd) ==
    /\ fd.returnDate > fd.pickupDate
    /\ Abs((fd.returnDate - fd.pickupDate) - fd.weeks * 7) <= 2

\* C11: a weekly form that validateForm accepts has its return date after its
\* pickup date and a day difference within 2 of weeks x 7, and so has every
\* weekly booking submitted; a weekly form with both dates set that fails
\* either condition gets a returnDate error.
C11_WeeklyTolerance ==
    /\ formData.bookingType = "weekly" =>
           /\ validateForm(formData, zone) = NoErrors => WeeklyDatesAgree(formData)
           /\ formData.pickupDate # NoDate /\ formData.returnDate # NoDate
                  /\ ~WeeklyDatesAgree(formData)
                  => "returnDate" \in DOMAIN validateForm(formData, zone)
    /\ \A t \in Calls : t.bookingType = "weekly" => WeeklyDatesAgree(t.formData)

\* the submit event refused pickup P, return P+5, 2 weeks with the message
\* that names the 14 days expected
C11_Witness ==
    /\ formData.bookingType = "weekly"
    /\ formData.weeks = 2
    /\ formData.pickupDate = Today + 1
    /\ formData.returnDate = Today + 6
    /\ "returnDate" \in DOMAIN errors
    /\ errors["returnDate"] = <<"Return date should be approximately ", 14,
                                " days after pickup date for ", 2, " week(s)">>
    /\ submitted = 0

\* an input event changed the pickup date or the duration of the current type
DateOrDurationChanged ==
    /\ isOpen /\ isOpen'
    /\ formData'.bookingType = formData.bookingType
    /\ \/ formData'.pickupDate # formData.pickupDate
       \/ formData.bookingType = "daily" /\ formData'.days # formData.days
       \/ formData.bookingType = "weekly" /\ formData'.weeks # formData.weeks
    /\ formData'.pickupDate # NoDate

\* C12 (as claimed): after an input event that changes the pickup date or the
\* duration of the current booking type, with a pickup date set, the return
\* date is the pickup date + days (daily) or + weeks x 7 (weekly).
C12_ReturnDateRecalculated ==
    [][DateOrDurationChanged =>
          formData'.returnDate = formData'.pickupDate
              + (IF formData'.bookingType = "weekly" THEN formData'.weeks * 7
                 ELSE formData'.days)]_vars

\* the quote the modal shows
Quote == calculatePrice(bookingData, formData)

\* t is x * p / 100 rounded to the nearest whole rupee, a half upwards
IsRounded(t, x, p) ==
    /\ t % 100 = 0
    /\ 100 * t - p * x > 0 - 5000 /\ 100 * t - p * x <= 5000

\* C13: a weekly quote has originalPrice = pricePerDay x weeks x 7, totalPrice
\* = round(originalPrice x 0.65), savings = originalPrice - totalPrice and the
\* weekly-discount flag, whatever the price, the model and the weeks in 1..12.
C13_WeeklyQuote ==
    Rendered /\ formData.bookingType = "weekly" =>
        /\ formData.weeks \in 1..12
        /\ Quote.pricePerDay = bookingData.pricePerDay
        /\ Quote.originalPrice = bookingData.pricePerDay * formData.weeks * 7
        /\ IsRounded(Quote.totalPrice, Quote.originalPrice, 65)
        /\ Quote.savings = Quote.originalPrice - Quote.totalPrice
        /\ Quote.weeklyDiscount

C13_Witness ==
    /\ Rendered /\ formData.bookingType = "weekly"
    /\ bookingData.pricePerDay = Rupees(550) /\ formData.weeks = 2
    /\ Quote.originalPrice = Rupees(7700)
    /\ Quote.totalPrice = Rupees(5005) /\ Quote.savings = Rupees(2695)

\* the models among ModelInputs whose name contains 'Pulsar 150' or 'Pulsar 125'
DiscountedModels == {PulsarName, Pulsar125Name}

C15_NoDiscountStacking ==
    Rendered =>
        /\ ~(Quote.discount /\ Quote.weeklyDiscount)
        /\ formData.bookingType = "weekly" =>
               ~Quote.discount /\ IsRounded(Quote.totalPrice, Quote.originalPrice, 65)
        /\ formData.bookingType = "daily" =>
               ~Quote.weeklyDiscount /\ Quote.totalPrice * 10 >= Quote.originalPrice * 9 - 500

\* a weekly quote for 1 day's worth of the days field on a discounted model
C15_Witness ==
    /\ Rendered /\ formData.bookingType = "weekly"
    /\ bookingData.model \in DiscountedModels
    /\ formData.days = 1 /\ formData.weeks = 1
    /\ Quote.weeklyDiscount /\ ~Quote.discount

\* C16: whenever the modal goes from closed to open, currentStep is 'form',
\* every form field has its default, the error mapping is empty and
\* isSubmitting is false, whatever they were before.
C16_ResetOnOpen ==
    [][~isOpen /\ isOpen' =>
          /\ currentStep' = "form"
          /\ formData' = DefaultFormData
          /\ formData'.name = <<>> /\ formData'.contact = <<>>
          /\ formData'.address = <<>>
          /\ formData'.pickupDate = NoDate /\ formData'.returnDate = NoDate
          /\ formData'.days = 1 /\ formData'.weeks = 1
          /\ formData'.bookingType = "daily"
          /\ formData'.pickupTime = 9 * 60 /\ formData'.returnTime = 18 * 60
          /\ errors' = NoErrors
          /\ isSubmitting' = FALSE]_vars

\* the modal is open again, reset, after a session that ended in the
\* confirmation step, which only a new opening leaves
C16_Witness ==
    /\ isOpen /\ currentStep = "form"
    /\ formData = DefaultFormData /\ errors = NoErrors /\ ~isSubmitting
    /\ lastDone.pc = "done" /\ lastDone.outcome = "thank-you"
    /\ inflight = <<>>

\* C17: a daily booking is inserted into 'bookings' and never into
\* 'weekly_bookings', a weekly booking into 'weekly_bookings' and never into
\* 'bookings', and no submission has a row in both.
C17_TableMatchesType ==
    /\ \A k \in DOMAIN bookings :
           /\ "days" \in DOMAIN bookings[k].row
           /\ "weeks" \notin DOMAIN bookings[k].row
           /\ bookings[k].row.rental_type = "daily"
    /\ \A k \in DOMAIN weekly_bookings :
           /\ "weeks" \in DOMAIN weekly_bookings[k].row
           /\ "days" \notin DOMAIN weekly_bookings[k].row
    /\ \A t \in Calls :
           /\ t.bookingType = "daily" => Rows(weekly_bookings, t.sub) = {}
           /\ t.bookingType = "weekly" => Rows(bookings, t.sub) = {}
           /\ \A k \in DOMAIN t.attempts :
                  t.attempts[k].tier = "remote" =>
                      t.attempts[k].target = (IF t.bookingType = "weekly"
                                              THEN "weekly_bookings" ELSE "bookings")
    /\ \A sub \in 1..submitted :
           Rows(bookings, sub) = {} \/ Rows(weekly_bookings, sub) = {}

C17_Witness ==
    /\ Len(bookings) = 1 /\ Len(weekly_bookings) = 1
    /\ bookings[1].sub # weekly_bookings[1].sub
    /\ inflight = <<>>

\* the tabs that have written the slot
Writers == {t \in Tabs : tabs[t].saves > 0}

\* C18: storeBookingLocally takes no lock, so the last write wins: the slot
\* holds what the tab that wrote last had read, plus that tab's own entry, and
\* never more entries than writes; two tabs that both read before either
\* wrote leave one of their two entries in the slot.
C18_LastWriteWins ==
    /\ Writers = {} => pendingBookings = <<>>
    /\ Writers # {} => \E t \in Writers : pendingBookings = tabs[t].existingBookings
    /\ \A t \in Tabs : Cardinality(Rows(pendingBookings, <<t, 1>>)) <= 1

\* both tabs fell back once and the slot holds one entry
C18_Witness ==
    /\ \A t \in Tabs : tabs[t].pc = "idle" /\ tabs[t].saves = 1
    /\ Len(pendingBookings) = 1

\* the alert submitToSupabase / submitWeeklyBookingToSupabase shows for an
\* error the insert returned
RemoteAlert(t) ==
    IF t.bookingType = "weekly" THEN "Weekly Booking Supabase Error" ELSE "Supabase Error"

RemoteErrored(t) ==
    \E k \in DOMAIN t.attempts :
        /\ t.attempts[k].tier = "remote"
        /\ t.attempts[k].status = "failed"
        /\ t.attempts[k].cause = "error"

AllTiersFailed(t) == t.pc = "done" /\ ~Succeeded(t)

\* C19 as stated: the only alert a submission shows is the failure
\* notification, after every tier has failed.
C19_OnlyFinalFailureAlert ==
    \A t \in Calls :
        \A k \in DOMAIN t.alerts : t.alerts[k] = FailureAlert /\ AllTiersFailed(t)

\* C19: a remote write error the insert returned shows one alert naming the
\* Supabase error, before the fallback starts; the only other alert a submission
\* shows is the failure notification, last, after every tier has failed.
C19_RemoteErrorAlertsThenFallsBack ==
    \A t \in Calls :
        t.alerts = (IF RemoteErrored(t) THEN <<RemoteAlert(t)>> ELSE <<>>)
                       \o (IF AllTiersFailed(t) THEN <<FailureAlert>> ELSE <<>>)

\* a submission that showed the Supabase error and then ended in the confirmation
C19_Witness ==
    /\ lastDone.pc = "done"
    /\ lastDone.outcome = "thank-you"
    /\ RemoteErrored(lastDone)
    /\ lastDone.alerts = <<RemoteAlert(lastDone)>>

\* the store a tier writes
StoreOf(target) ==
    CASE target = "bookings" -> bookings
      [] target = "weekly_bookings" -> weekly_bookings
      [] target = "relay" -> relayPosts
      [] OTHER -> pendingBookings

\* C20: submitBooking deduplicates nothing: every tier of a call that
\* succeeded has added one record of its own to its store, whatever records
\* the store and the other stores already held, so two successful submissions
\* of the same form content leave two records.
C20_NotIdempotent ==
    \A t \in Calls :
        \A k \in DOMAIN t.attempts :
            t.attempts[k].status = "ok" =>
                Cardinality(Rows(StoreOf(t.attempts[k].target), t.sub)) = 1

\* two submissions have ended and the table holds two rows of equal content
C20_Witness ==
    /\ inflight = <<>>
    /\ lastDone.pc = "done" /\ lastDone.outcome = "thank-you"
    /\ \E i, j \in DOMAIN bookings :
           /\ i < j
           /\ bookings[i].row = bookings[j].row
           /\ bookings[i].sub # bookings[j].sub
           /\ bookings[j].sub = lastDone.sub

\* text without its whitespace is an optional +91 and ten digits, the first of
\* them 6, 7, 8 or 9
MobileShape(text) ==
    LET clean == SelectSeq(text, LAMBDA ch : ch \notin Whitespace)
        national == IF Len(clean) = 13 /\ SubSeq(clean, 1, 3) = <<"+","9","1">>
                    THEN SubSeq(clean, 4, 13) ELSE clean
    IN  /\ Len(national) = 10
        /\ \A i \in 1..10 : national[i] \in Digits
        /\ DigitValue(national[1]) \in 6..9

OnlyWhitespace(text) == \A i \in DOMAIN text : text[i] \in Whitespace

\* what the validator is to say about a contact value
ContactVerdict(text) ==
    IF OnlyWhitespace(text) THEN "contact" :> <<"Contact number is required">>
    ELSE IF MobileShape(text) THEN NoErrors
    ELSE "contact" :> <<"Enter a valid 10-digit Indian mobile number">>

\* C21: validateForm accepts the contact value exactly when, with all its
\* whitespace removed, it is an optional +91 and ten digits the first of which
\* is 6..9; it says 'required' of an empty value and 'invalid number' of any
\* other; the error shown is the one of the value in the field, and every
\* booking submitted carries an accepted contact.
C21_ContactAccepted ==
    /\ ContactErrors(formData) = ContactVerdict(formData.contact)
    /\ ("contact" \in DOMAIN validateForm(formData, zone)) <=> ~MobileShape(formData.contact)
    /\ "contact" \in DOMAIN errors =>
           errors["contact"] = ContactVerdict(formData.contact)["contact"]
    /\ \A t \in Calls : MobileShape(t.formData.contact)

\* the submit event refused '12345' as an invalid number
C21_Witness ==
    /\ formData.contact = <<"1","2","3","4","5">>
    /\ "contact" \in DOMAIN errors
    /\ errors["contact"] = <<"Enter a valid 10-digit Indian mobile number">>
    /\ submitted = 0
\* the relay attempt of call t, if it has settled
RelayAttempts(t) ==
    {k \in DOMAIN t.attempts :
        t.attempts[k].tier = "relay" /\ t.attempts[k].status # "inflight"}

\* C22: the relay tier reports success whenever fetch did not throw, whether
\* the endpoint stored the booking or refused it; a daily call reaches local
\* storage only after its relay call threw; a call whose relay call was
\* refused ends in the confirmation.
C22_RelayOptimistic ==
    \A t \in Calls :
        /\ \A k \in RelayAttempts(t) :
               /\ t.attempts[k].status = "ok" <=> t.attempts[k].cause # "threw"
               /\ t.attempts[k].status = "failed" <=> t.attempts[k].cause = "threw"
        /\ t.bookingType = "daily" /\ "local" \in {t.attempts[k].tier : k \in DOMAIN t.attempts}
               => \E k \in RelayAttempts(t) : t.attempts[k].cause = "threw"
        /\ t.pc = "done" /\ (\E k \in RelayAttempts(t) : t.attempts[k].cause = "refused")
               => t.outcome = "thank-you"

\* the confirmation is shown for a booking that the table refused, the relay
\* endpoint refused, and local storage never saw
C22_Witness ==
    /\ lastDone.pc = "done"
    /\ lastDone.outcome = "thank-you"
    /\ currentStep = "thank-you"
    /\ \E k \in RelayAttempts(lastDone) : lastDone.attempts[k].cause = "refused"
    /\ Rows(bookings, lastDone.sub) = {}
    /\ Rows(pendingBookings, lastDone.sub) = {}
\* C23 (as claimed): isSubmitting is true exactly while a call of submitBooking
\* is short of its end.
C23_SubmittingExactlyWhileInFlight == isSubmitting <=> inflight # <<>>
\* an input event of the open form changed the form data
InputEvent == isOpen /\ isOpen' /\ formData' # formData

\* C24 (as claimed): after an input event every field whose value changed has
\* no error, and the errors of the fields whose values did not change are as
\* they were.
C24_ChangedFieldsCleared ==
    [][InputEvent =>
          \A f \in FormFields :
              IF formData'[f] # formData[f]
              THEN f \notin DOMAIN errors'
              ELSE /\ f \in DOMAIN errors' <=> f \in DOMAIN errors
                   /\ f \in DOMAIN errors => errors'[f] = errors[f]]_vars
\* the value payload p carries under either spelling of a key
Carried(p, snake, camel) ==
    IF snake \in DOMAIN p THEN <<p[snake]>>
    ELSE IF camel \in DOMAIN p THEN <<p[camel]>>
    ELSE <<>>

\* payload p carries the booking content of the payload call t offered to the
\* remote store
SameContent(p, t) ==
    LET r == IF t.bookingType = "weekly" THEN TaskWeeklyPayload(t)
             ELSE TaskSupabasePayload(t)
    IN  /\ \A key \in {"name", "contact", "address", "category", "model"} :
               Carried(p, key, key) = <<r[key]>>
        /\ Carried(p, "price_per_day", "pricePerDay") = <<r.price_per_day>>
        /\ IF t.bookingType = "weekly"
           THEN /\ Carried(p, "weeks", "weeks") = <<r.weeks>>
                /\ Carried(p, "total_weeks_price", "totalPrice") = <<r.total_weeks_price>>
           ELSE /\ Carried(p, "days", "days") = <<r.days>>
                /\ Carried(p, "total_price", "totalPrice") = <<r.total_price>>
                /\ Carried(p, "pickup_time", "pickupTime") = <<r.pickup_time>>
                /\ Carried(p, "return_time", "returnTime") = <<r.return_time>>
        /\ Carried(p, "pickup_date", "pickupDate") = <<r.pickup_date>>
        /\ Carried(p, "return_date", "returnDate") = <<r.return_date>>

\* C25 (as claimed): what a call posts to the relay and what it saves to local
\* storage carries the name, contact, address, category, model, price per day,
\* duration, total price and pickup/return schedule of the payload it offered
\* to the remote store.
C25_FallbackCarriesSameContent ==
    \A t \in Calls :
        /\ \A k \in Rows(relayPosts, t.sub) : SameContent(relayPosts[k].body, t)
        /\ \A k \in Rows(pendingBookings, t.sub) : SameContent(pendingBookings[k].entry, t)
DurationWithinBounds(fd) == fd.days \in 1..30 /\ fd.weeks \in 1..12

\* C26: whatever is typed into the duration input or left in it, and whichever
\* booking type is selected, days is a whole number in 1..30 and weeks one in
\* 1..12, in the form and in every booking submitted.
C26_DurationWithinBounds ==
    /\ DurationWithinBounds(formData)
    /\ \A t \in Calls : DurationWithinBounds(t.formData)

\* a daily booking of 30 days is submitted after 45 was typed as the days and,
\* before it, 13 as the weeks
C26_Witness ==
    /\ formData.days = 30
    /\ formData.weeks = 12
    /\ \E t \in Calls : t.bookingType = "daily" /\ t.formData.days = 30
\* a step of the open form that changes the booking type
TypeSwitched == isOpen /\ isOpen' /\ formData'.bookingType # formData.bookingType

C28_StaleCompletionInert ==
    [][/\ currentStep' = "thank-you" /\ currentStep # "thank-you"
              => Ends /\ lastDone'.session = "current"
       /\ Ends /\ lastDone'.session = "earlier" /\ isOpen
              => currentStep' = currentStep /\ isSubmitting' = isSubmitting]_vars

\* the quote adds up, and the total is neither negative nor above the
\* original price
QuoteAddsUp ==
    /\ Quote.savings = Quote.originalPrice - Quote.totalPrice
    /\ 0 <= Quote.totalPrice
    /\ Quote.totalPrice <= Quote.originalPrice

ZeroQuote ==
    [pricePerDay |-> 0, totalPrice |-> 0, discount |-> FALSE,
     weeklyDiscount |-> FALSE, originalPrice |-> 0, savings |-> 0]

\* C29 (as claimed): every quote has savings = originalPrice - totalPrice and
\* 0 <= totalPrice <= originalPrice, whatever the price per day; without a
\* vehicle the quote is all zeros with both flags false.
C29_QuoteBounds ==
    /\ formData.days \in 1..30 /\ formData.weeks \in 1..12 => QuoteAddsUp
    /\ bookingData = NoVehicle => Quote = ZeroQuote

\* what does hold: the quote of a price per day that is a whole number of
\* rupees adds up
WholePriceQuoteAddsUp ==
    /\ bookingData # NoVehicle /\ bookingData.pricePerDay % 100 = 0
           /\ formData.days \in 1..30 /\ formData.weeks \in 1..12
           => QuoteAddsUp
    /\ bookingData = NoVehicle => Quote = ZeroQuote

\* the rows call n of createContactMessage wrote to the two tables
ContactRows(n) == Rows(contacts, n)

FallbackRows(n) == Rows(bookings, <<"contact", n>>)

ContactAttemptOk == \E k \in DOMAIN contactCall.attempts : contactCall.attempts[k].status = "ok"

\* C30: createContactMessage inserts into 'bookings' only after its insert
\* into 'contacts' returned an error; it returns exactly when one of the two
\* inserts succeeded, having written one row, and it throws when both failed
\* (or an insert was rejected), having written none.
C30_ContactFallback ==
    LET c == contactCall
        n == c.n
    IN  /\ Len(c.attempts) <= 2
        /\ c.attempts # <<>> => c.attempts[1].table = "contacts"
        /\ Len(c.attempts) = 2 =>
               c.attempts[1].status = "error" /\ c.attempts[2].table = "bookings"
        /\ FallbackRows(n) # {} => Len(c.attempts) = 2
        /\ c.pc = "returned" <=> ContactAttemptOk
        /\ c.pc = "returned" =>
               Cardinality(ContactRows(n)) + Cardinality(FallbackRows(n)) = 1
        /\ c.pc = "threw" =>
               /\ ContactRows(n) = {} /\ FallbackRows(n) = {}
               /\ \A k \in DOMAIN c.attempts : c.attempts[k].status \in {"error", "throw"}
        /\ Len(c.attempts) = 2 /\ c.attempts[2].status \in {"error", "throw"} =>
               c.pc = "threw"

\* the message was saved as a booking of category 'Contact Form' after the
\* table 'contacts' returned an error
C30_Witness ==
    /\ contactCall.pc = "returned"
    /\ Len(contactCall.attempts) = 2
    /\ ContactRows(contactCall.n) = {}
    /\ \E k \in FallbackRows(contactCall.n) :
           /\ bookings[k].row.category = "Contact Form"
           /\ bookings[k].row.contact = "ravi@example.com"
=============================================================================
